---- MODULE Spec2Model ----
(***************************************************************************)
(* railtail: the TCP tunnel mode.  One accept loop (main, TCP branch) and  *)
(* one forwarding session fwdTCP (src/unnamed/part_000) with its two copy  *)
(* goroutines, the local client on lstConn and the outbound peer on        *)
(* tsConn.  Streams carry small byte sequences through bounded buffers.    *)
(***************************************************************************)
EXTENDS Integers, Sequences, FiniteSets, TLC

\* ---- bounds -------------------------------------------------------------
MaxLocalPayload == 2 \* longest byte sequence the local client sends
MaxPeerPayload == 1  \* longest byte sequence the outbound peer sends
BufCap == 1          \* capacity of each in-flight stream buffer
MaxClock == 11       \* cap on the dial clock (seconds)
MaxAcceptErrs == 1   \* cap on logged accept errors
MaxSessions == 2     \* cap on accepted connections (only the first is traced)

\* ---- program constants --------------------------------------------------
\* context.WithTimeout(ctx, 10*time.Second) around ts.Dial
DialTimeout == 10

\* net.Listen("tcp") yields *net.TCPConn, tsnet Dial yields *gonet.TCPConn;
\* both implement CloseWrite, so the type assertions succeed.
LstHasCloseWrite == TRUE
TsHasCloseWrite == TRUE

Payloads(max) == { [i \in 1..n |-> i] : n \in 0..max }

VARIABLES
  \* accept loop
  tasks, loop, acceptErrs, lastAcceptErr, spawned,
  \* fwdTCP
  fpc, dialState, dialAttempts, dialElapsed, result,
  ctxCancelled, gctxCancelled, gErr,
  \* copy goroutines: 1 = local->remote, 2 = remote->local
  pc1, buf1, res1, hc1,
  pc2, buf2, res2, hc2,
  \* connections
  lDeadline, tDeadline, lReset, tReset, lClosed, tClosed, sessExpired,
  \* local client
  lToSend, lIn, lFin, lOut, lOutFin, lRecv, lEOF,
  \* outbound peer
  pToSend, tIn, pFin, tOut, tOutFin, pRecv, pEOF,
  \* the payloads each side sent (history)
  lPayload, pPayload,
  \* fwdHttp: inbound request, the ReverseProxy's outbound request, results
  hTarget, hUri, hHdr, hBody, hpc, parsedError, proxyError,
  outURL, outHost, outHdr, outBody, hSent, rtOut, responses, status, hResult,
  \* http.Server streaming a response
  sMode, sPc, sElapsed, sCut,
  \* main: configuration, startup, dispatch, forwarding tasks
  cfgTarget, cfgProxy, cfgSkip, cfgMode, cfgErrs, mainPc, strategy, trSet, trSkip, relays,
  \* the tailnet proxy's http.Server and TailnetProxy.ServeHTTP for one request
  tpConn, tpProto, tpHostHdr, tpUri, tpPc, tpHost, tpTls, tpHandled, tpTarget, tpFwd, tpDialed, tpStatus,
  \* two concurrent TCP sessions of the accept loop
  isoCur, isoAccepted, isoArg, isoOwn, isoLocal, isoReset, isoCut, isoOut, isoRes, isoRemote, isoBack,
  \* fwdHttp's outbound round trip
  rtTarget, rtPc, rtElapsed, rtClientGone, rtResult

loopVars == <<tasks, loop, acceptErrs, lastAcceptErr, spawned>>
fwdVars == <<fpc, dialState, dialAttempts, dialElapsed, result,
             ctxCancelled, gctxCancelled, gErr>>
g1Vars == <<pc1, buf1, res1, hc1>>
g2Vars == <<pc2, buf2, res2, hc2>>
connVars == <<lDeadline, tDeadline, lReset, tReset, lClosed, tClosed, sessExpired>>
localVars == <<lToSend, lIn, lFin, lOut, lOutFin, lRecv, lEOF>>
peerVars == <<pToSend, tIn, pFin, tOut, tOutFin, pRecv, pEOF>>
histVars == <<lPayload, pPayload>>
tcpVars == <<loopVars, fwdVars, g1Vars, g2Vars, connVars, localVars, peerVars, histVars>>
httpVars == <<hTarget, hUri, hHdr, hBody, hpc, parsedError, proxyError,
              outURL, outHost, outHdr, outBody, hSent, rtOut, responses, status, hResult>>
streamVars == <<sMode, sPc, sElapsed, sCut>>
mainVars == <<cfgTarget, cfgProxy, cfgSkip, cfgMode, cfgErrs, mainPc, strategy, trSet, trSkip, relays>>
tpVars == <<tpConn, tpProto, tpHostHdr, tpUri, tpPc, tpHost, tpTls, tpHandled, tpTarget, tpFwd, tpDialed, tpStatus>>
isoVars == <<isoCur, isoAccepted, isoArg, isoOwn, isoLocal, isoReset, isoCut, isoOut, isoRes,
             isoRemote, isoBack>>
rtVars == <<rtTarget, rtPc, rtElapsed, rtClientGone, rtResult>>
appVars == <<mainVars, tpVars, isoVars, rtVars>>
vars == <<tcpVars, httpVars, streamVars, appVars>>

TcpInit ==
  /\ tasks = [k \in 1..MaxSessions |-> "none"] /\ loop = "running" /\ acceptErrs = 0 /\ lastAcceptErr = "none" /\ spawned = 0
  /\ fpc = "idle" /\ dialState = "none" /\ dialAttempts = 0 /\ dialElapsed = 0
  /\ result = "none" /\ ctxCancelled = FALSE /\ gctxCancelled = FALSE /\ gErr = "nil"
  /\ pc1 = "idle" /\ buf1 = <<>> /\ res1 = "none" /\ hc1 = FALSE
  /\ pc2 = "idle" /\ buf2 = <<>> /\ res2 = "none" /\ hc2 = FALSE
  /\ lDeadline = FALSE /\ tDeadline = FALSE /\ lReset = FALSE /\ tReset = FALSE
  /\ lClosed = FALSE /\ tClosed = FALSE /\ sessExpired = FALSE
  /\ lToSend \in Payloads(MaxLocalPayload) /\ lPayload = lToSend
  /\ lIn = <<>> /\ lFin = FALSE /\ lOut = <<>> /\ lOutFin = FALSE /\ lRecv = <<>> /\ lEOF = FALSE
  /\ pToSend \in Payloads(MaxPeerPayload) /\ pPayload = pToSend
  /\ tIn = <<>> /\ pFin = FALSE /\ tOut = <<>> /\ tOutFin = FALSE /\ pRecv = <<>> /\ pEOF = FALSE

\* ---- accept loop (main, TCP branch) ---------------------------------------
\* tasks[k]: the goroutine spawned for the k-th accepted connection
\* ("none" before that connection is accepted, "running", "returned").
\* listener.Accept() succeeds: spawn go func(c){ c.SetDeadline(now+5m);
\* fwdTCP(c, ...) }(conn) and loop again.  The goroutine of the first
\* accepted connection is the session traced step by step: its fwdTCP starts
\* its single ts.Dial call.
StartSession(k) ==
  IF k = 1
  THEN /\ fpc' = "dial" /\ dialState' = "pending" /\ dialAttempts' = dialAttempts + 1
       /\ UNCHANGED <<dialElapsed, result, ctxCancelled, gctxCancelled, gErr>>
  ELSE UNCHANGED fwdVars

AcceptOkSync ==
  /\ loop = "running" /\ spawned < MaxSessions
  /\ \A j \in 1..spawned : tasks[j] = "returned"
  /\ spawned' = spawned + 1 /\ tasks' = [tasks EXCEPT ![spawned + 1] = "running"]
  /\ StartSession(spawned + 1)
  /\ UNCHANGED <<httpVars, streamVars, appVars, loop, acceptErrs, lastAcceptErr,
                 g1Vars, g2Vars, connVars, localVars, peerVars, histVars>>

AcceptOk ==
  /\ loop = "running" /\ spawned < MaxSessions
  /\ spawned' = spawned + 1 /\ tasks' = [tasks EXCEPT ![spawned + 1] = "running"]
  /\ StartSession(spawned + 1)
  /\ UNCHANGED <<httpVars, streamVars, appVars, loop, acceptErrs, lastAcceptErr,
                 g1Vars, g2Vars, connVars, localVars, peerVars, histVars>>

\* The goroutine of connection k returns once its fwdTCP has returned (for the
\* traced session: fpc = "done"); nothing waits for it.
TaskReturn(k) ==
  /\ tasks[k] = "running" /\ (k = 1 => fpc = "done")
  /\ tasks' = [tasks EXCEPT ![k] = "returned"]
  /\ UNCHANGED <<httpVars, streamVars, appVars, loop, acceptErrs, lastAcceptErr, spawned,
                 fwdVars, g1Vars, g2Vars, connVars, localVars, peerVars, histVars>>

AcceptErrExit ==
  /\ loop = "running" /\ acceptErrs < MaxAcceptErrs
  /\ acceptErrs' = acceptErrs + 1 /\ lastAcceptErr' = "transient" /\ loop' = "exited"
  /\ UNCHANGED <<httpVars, streamVars, appVars, tasks, spawned, fwdVars, g1Vars, g2Vars, connVars, localVars, peerVars, histVars>>

\* Accept error: logged, `continue` (the loop has this single error branch).
AcceptErr ==
  /\ loop = "running" /\ acceptErrs < MaxAcceptErrs
  /\ acceptErrs' = acceptErrs + 1 /\ lastAcceptErr' = "transient"
  /\ UNCHANGED <<httpVars, streamVars, appVars, tasks, loop, spawned, fwdVars, g1Vars, g2Vars, connVars, localVars, peerVars, histVars>>

\* ---- fwdTCP: the dial ------------------------------------------------------
DialCtxDeadlineNone == MaxClock

\* Deadline of dialCtx (context.WithTimeout(ctx, 10*time.Second)).
DialCtxDeadline == DialTimeout

\* One second passes while ts.Dial(dialCtx, ...) is blocked; the context
\* timer fires at its deadline, so time cannot pass it with the dial pending.
DialTick ==
  /\ fpc = "dial"
  /\ dialElapsed < DialCtxDeadline /\ dialElapsed < MaxClock
  /\ dialElapsed' = dialElapsed + 1
  /\ UNCHANGED <<httpVars, streamVars, appVars, loopVars, fpc, dialState, dialAttempts, result, ctxCancelled,
                 gctxCancelled, gErr, g1Vars, g2Vars, connVars, localVars, peerVars, histVars>>

\* ts.Dial returns a connection: errgroup.WithContext, two g.Go.
DialOk ==
  /\ fpc = "dial"
  /\ fpc' = "wait" /\ dialState' = "ok" /\ dialElapsed' = 0
  /\ pc1' = "copy" /\ pc2' = "copy"
  /\ UNCHANGED <<httpVars, streamVars, appVars, loopVars, dialAttempts, result, ctxCancelled, gctxCancelled, gErr,
                 buf1, res1, hc1, buf2, res2, hc2, connVars, localVars, peerVars, histVars>>

DeferredClosesNoLst(dialed) ==
  /\ lClosed' = lClosed
  /\ tClosed' = (tClosed \/ dialed)

DeferredClosesNoTs(dialed) ==
  /\ lClosed' = TRUE
  /\ tClosed' = tClosed

\* The deferred Close calls of fwdTCP: lstConn.Close() always, and
\* tsConn.Close() once the dial succeeded.
DeferredCloses(dialed) ==
  /\ lClosed' = TRUE
  /\ tClosed' = (tClosed \/ dialed)

DialReturnsErrNil(kind) ==
  /\ fpc' = "done" /\ dialState' = kind /\ dialElapsed' = 0
  /\ result' = "nil" /\ ctxCancelled' = TRUE /\ DeferredCloses(FALSE)
  /\ UNCHANGED <<httpVars, streamVars, appVars, loopVars, dialAttempts, gctxCancelled, gErr, g1Vars, g2Vars,
                 lDeadline, tDeadline, lReset, tReset, sessExpired,
                 localVars, peerVars, histVars>>

\* ts.Dial returns an error: return fmt.Errorf("failed to dial ...: %w", err);
\* deferred dialCancel(), cancel(), lstConn.Close() run.
DialReturnsErr(kind) ==
  /\ fpc' = "done" /\ dialState' = kind /\ dialElapsed' = 0
  /\ result' = "dialErr" /\ ctxCancelled' = TRUE /\ DeferredCloses(FALSE)
  /\ UNCHANGED <<httpVars, streamVars, appVars, loopVars, dialAttempts, gctxCancelled, gErr, g1Vars, g2Vars,
                 lDeadline, tDeadline, lReset, tReset, sessExpired,
                 localVars, peerVars, histVars>>

\* The target refuses / is unreachable before the deadline.
DialRefused ==
  /\ fpc = "dial" /\ dialElapsed < DialCtxDeadline
  /\ DialReturnsErr("refused")

\* dialCtx's deadline expires: ts.Dial returns context.DeadlineExceeded.
DialTimedOut ==
  /\ fpc = "dial" /\ dialElapsed = DialCtxDeadline
  /\ DialReturnsErr("timeout")

\* ---- fwdTCP: the copy goroutines -----------------------------------------
\* errgroup.Group: the first non-nil error returned by a g.Go function is
\* kept and cancels groupCtx.
RecordErr(e) ==
  /\ gErr' = IF gErr = "nil" THEN e ELSE gErr
  /\ gctxCancelled' = TRUE

\* -- goroutine 1: io.Copy(tsConn, lstConn) --
\* lstConn.Read returns data.
G1ReadData ==
  /\ pc1 = "copy" /\ buf1 = <<>> /\ ~lDeadline /\ ~lReset /\ lIn # <<>>
  /\ buf1' = <<Head(lIn)>> /\ lIn' = Tail(lIn)
  /\ UNCHANGED <<httpVars, streamVars, appVars, loopVars, fwdVars, pc1, res1, hc1, g2Vars, connVars,
                 lToSend, lFin, lOut, lOutFin, lRecv, lEOF, peerVars, histVars>>

\* lstConn.Read returns io.EOF: io.Copy returns nil.
G1ReadEof ==
  /\ pc1 = "copy" /\ buf1 = <<>> /\ ~lDeadline /\ ~lReset /\ lIn = <<>> /\ lFin
  /\ pc1' = "halfclose"
  /\ UNCHANGED <<httpVars, streamVars, appVars, loopVars, fwdVars, buf1, res1, hc1, g2Vars, connVars,
                 localVars, peerVars, histVars>>

\* io.Copy returned an error: cancel(); return fmt.Errorf(...); the deferred
\* tsConn.SetDeadline(time.Now()) runs.
G1Fails ==
  /\ ctxCancelled' = TRUE /\ RecordErr("toTs")
  /\ res1' = "copyErr" /\ pc1' = "done" /\ buf1' = <<>> /\ tDeadline' = TRUE
  /\ UNCHANGED <<httpVars, streamVars, appVars, loopVars, fpc, dialState, dialAttempts, dialElapsed, result, hc1,
                 g2Vars, lDeadline, lReset, tReset, lClosed, tClosed, sessExpired,
                 localVars, peerVars, histVars>>

\* lstConn.Read fails (deadline passed or connection reset).
G1ReadErr ==
  /\ pc1 = "copy" /\ buf1 = <<>> /\ (lDeadline \/ lReset)
  /\ G1Fails

\* tsConn.Write accepts the byte.
G1WriteData ==
  /\ pc1 = "copy" /\ buf1 # <<>> /\ ~tDeadline /\ ~tReset /\ Len(tOut) < BufCap
  /\ tOut' = tOut \o buf1 /\ buf1' = <<>>
  /\ UNCHANGED <<httpVars, streamVars, appVars, loopVars, fwdVars, pc1, res1, hc1, g2Vars, connVars,
                 localVars, pToSend, tIn, pFin, tOutFin, pRecv, pEOF, histVars>>

\* tsConn.Write fails (deadline passed or connection reset).
G1WriteErr ==
  /\ pc1 = "copy" /\ buf1 # <<>> /\ (tDeadline \/ tReset)
  /\ G1Fails

\* After io.Copy returned nil: tsConn.(interface{ CloseWrite() error }),
\* CloseWrite(); its error is returned.  Then the deferred SetDeadline.
G1HalfClose ==
  /\ pc1 = "halfclose"
  /\ hc1' = TsHasCloseWrite
  /\ \E ok \in (IF TsHasCloseWrite /\ tReset THEN {TRUE, FALSE} ELSE {TRUE}):
       /\ tOutFin' = (tOutFin \/ (TsHasCloseWrite /\ ok))
       /\ res1' = IF ok THEN "nil" ELSE "cwErr"
       /\ IF ok THEN UNCHANGED <<gErr, gctxCancelled>> ELSE RecordErr("cwTs")
  /\ pc1' = "done" /\ tDeadline' = TRUE
  /\ UNCHANGED <<httpVars, streamVars, appVars, loopVars, fpc, dialState, dialAttempts, dialElapsed, result, ctxCancelled,
                 buf1, g2Vars, lDeadline, lReset, tReset, lClosed, tClosed, sessExpired,
                 localVars, pToSend, tIn, pFin, tOut, pRecv, pEOF, histVars>>

\* -- goroutine 2: io.Copy(lstConn, tsConn) --
G2ReadData ==
  /\ pc2 = "copy" /\ buf2 = <<>> /\ ~tDeadline /\ ~tReset /\ tIn # <<>>
  /\ buf2' = <<Head(tIn)>> /\ tIn' = Tail(tIn)
  /\ UNCHANGED <<httpVars, streamVars, appVars, loopVars, fwdVars, g1Vars, pc2, res2, hc2, connVars, localVars,
                 pToSend, pFin, tOut, tOutFin, pRecv, pEOF, histVars>>

G2ReadEof ==
  /\ pc2 = "copy" /\ buf2 = <<>> /\ ~tDeadline /\ ~tReset /\ tIn = <<>> /\ pFin
  /\ pc2' = "halfclose"
  /\ UNCHANGED <<httpVars, streamVars, appVars, loopVars, fwdVars, g1Vars, buf2, res2, hc2, connVars,
                 localVars, peerVars, histVars>>

\* cancel(); return fmt.Errorf(...); deferred lstConn.SetDeadline(time.Now()).
G2Fails ==
  /\ ctxCancelled' = TRUE /\ RecordErr("fromTs")
  /\ res2' = "copyErr" /\ pc2' = "done" /\ buf2' = <<>> /\ lDeadline' = TRUE
  /\ UNCHANGED <<httpVars, streamVars, appVars, loopVars, fpc, dialState, dialAttempts, dialElapsed, result, hc2,
                 g1Vars, tDeadline, lReset, tReset, lClosed, tClosed, sessExpired,
                 localVars, peerVars, histVars>>

G2ReadErr ==
  /\ pc2 = "copy" /\ buf2 = <<>> /\ (tDeadline \/ tReset)
  /\ G2Fails

G2WriteData ==
  /\ pc2 = "copy" /\ buf2 # <<>> /\ ~lDeadline /\ ~lReset /\ Len(lOut) < BufCap
  /\ lOut' = lOut \o buf2 /\ buf2' = <<>>
  /\ UNCHANGED <<httpVars, streamVars, appVars, loopVars, fwdVars, g1Vars, pc2, res2, hc2, connVars,
                 lToSend, lIn, lFin, lOutFin, lRecv, lEOF, peerVars, histVars>>

G2WriteErr ==
  /\ pc2 = "copy" /\ buf2 # <<>> /\ (lDeadline \/ lReset)
  /\ G2Fails

G2HalfClose ==
  /\ pc2 = "halfclose"
  /\ hc2' = LstHasCloseWrite
  /\ \E ok \in (IF LstHasCloseWrite /\ lReset THEN {TRUE, FALSE} ELSE {TRUE}):
       /\ lOutFin' = (lOutFin \/ (LstHasCloseWrite /\ ok))
       /\ res2' = IF ok THEN "nil" ELSE "cwErr"
       /\ IF ok THEN UNCHANGED <<gErr, gctxCancelled>> ELSE RecordErr("cwLst")
  /\ pc2' = "done" /\ lDeadline' = TRUE
  /\ UNCHANGED <<httpVars, streamVars, appVars, loopVars, fpc, dialState, dialAttempts, dialElapsed, result, ctxCancelled,
                 buf2, g1Vars, tDeadline, lReset, tReset, lClosed, tClosed, sessExpired,
                 lToSend, lIn, lFin, lOut, lRecv, lEOF, peerVars, histVars>>

\* ---- fwdTCP: g.Wait() and return ------------------------------------------
\* if err := g.Wait(); err != nil && groupCtx.Err() == nil { return connErr }
\* return nil
FwdResult(err, gctxErr) == IF err # "nil" /\ ~gctxErr THEN "connErr" ELSE "nil"

\* Both goroutines returned; Wait cancels groupCtx and returns the first
\* error; the deferred tsConn.Close, dialCancel, cancel, lstConn.Close run.
FwdReturn ==
  /\ fpc = "wait" /\ pc1 = "done" /\ pc2 = "done"
  /\ gctxCancelled' = TRUE
  /\ result' = FwdResult(gErr, gctxCancelled')
  /\ fpc' = "done" /\ ctxCancelled' = TRUE /\ DeferredCloses(TRUE)
  /\ UNCHANGED <<httpVars, streamVars, appVars, loopVars, dialState, dialAttempts, dialElapsed, gErr, g1Vars, g2Vars,
                 lDeadline, tDeadline, lReset, tReset, sessExpired,
                 localVars, peerVars, histVars>>

\* ---- environment: the local client on lstConn -----------------------------
LocalSend ==
  /\ lToSend # <<>> /\ ~lFin /\ ~lReset /\ ~lClosed /\ Len(lIn) < BufCap
  /\ lIn' = lIn \o <<Head(lToSend)>> /\ lToSend' = Tail(lToSend)
  /\ UNCHANGED <<httpVars, streamVars, appVars, loopVars, fwdVars, g1Vars, g2Vars, connVars,
                 lFin, lOut, lOutFin, lRecv, lEOF, peerVars, histVars>>

\* The client has sent everything and half-closes (local EOF).
LocalFinish ==
  /\ lToSend = <<>> /\ ~lFin /\ ~lReset /\ ~lClosed
  /\ lFin' = TRUE
  /\ UNCHANGED <<httpVars, streamVars, appVars, loopVars, fwdVars, g1Vars, g2Vars, connVars,
                 lToSend, lIn, lOut, lOutFin, lRecv, lEOF, peerVars, histVars>>

LocalRecv ==
  /\ lOut # <<>> /\ ~lReset
  /\ lRecv' = lRecv \o <<Head(lOut)>> /\ lOut' = Tail(lOut)
  /\ UNCHANGED <<httpVars, streamVars, appVars, loopVars, fwdVars, g1Vars, g2Vars, connVars,
                 lToSend, lIn, lFin, lOutFin, lEOF, peerVars, histVars>>

\* The client's read returns EOF (proxy half-closed or closed lstConn).
LocalSeeEof ==
  /\ lOut = <<>> /\ (lOutFin \/ lClosed) /\ ~lEOF /\ ~lReset
  /\ lEOF' = TRUE
  /\ UNCHANGED <<httpVars, streamVars, appVars, loopVars, fwdVars, g1Vars, g2Vars, connVars,
                 lToSend, lIn, lFin, lOut, lOutFin, lRecv, peerVars, histVars>>

\* The local connection breaks (RST): reads and writes on lstConn fail.
LocalReset ==
  /\ fpc = "wait" /\ ~lReset /\ ~lClosed
  /\ lReset' = TRUE
  /\ UNCHANGED <<httpVars, streamVars, appVars, loopVars, fwdVars, g1Vars, g2Vars, lDeadline, tDeadline, tReset,
                 lClosed, tClosed, sessExpired, localVars, peerVars, histVars>>

\* The absolute deadline main set on the accepted conn
\* (c.SetDeadline(time.Now().Add(5 * time.Minute))) passes.
SessionExpire ==
  /\ fpc = "wait" /\ ~sessExpired
  /\ sessExpired' = TRUE /\ lDeadline' = TRUE
  /\ UNCHANGED <<httpVars, streamVars, appVars, loopVars, fwdVars, g1Vars, g2Vars, tDeadline, lReset, tReset,
                 lClosed, tClosed, localVars, peerVars, histVars>>

\* ---- environment: the outbound peer on tsConn -----------------------------
PeerSend ==
  /\ dialState = "ok" /\ pToSend # <<>> /\ ~pFin /\ ~tReset /\ ~tClosed /\ Len(tIn) < BufCap
  /\ tIn' = tIn \o <<Head(pToSend)>> /\ pToSend' = Tail(pToSend)
  /\ UNCHANGED <<httpVars, streamVars, appVars, loopVars, fwdVars, g1Vars, g2Vars, connVars, localVars,
                 pFin, tOut, tOutFin, pRecv, pEOF, histVars>>

PeerFinish ==
  /\ dialState = "ok" /\ pToSend = <<>> /\ ~pFin /\ ~tReset /\ ~tClosed
  /\ pFin' = TRUE
  /\ UNCHANGED <<httpVars, streamVars, appVars, loopVars, fwdVars, g1Vars, g2Vars, connVars, localVars,
                 pToSend, tIn, tOut, tOutFin, pRecv, pEOF, histVars>>

PeerRecv ==
  /\ tOut # <<>> /\ ~tReset
  /\ pRecv' = pRecv \o <<Head(tOut)>> /\ tOut' = Tail(tOut)
  /\ UNCHANGED <<httpVars, streamVars, appVars, loopVars, fwdVars, g1Vars, g2Vars, connVars, localVars,
                 pToSend, tIn, pFin, tOutFin, pEOF, histVars>>

PeerSeeEof ==
  /\ dialState = "ok" /\ tOut = <<>> /\ (tOutFin \/ tClosed) /\ ~pEOF /\ ~tReset
  /\ pEOF' = TRUE
  /\ UNCHANGED <<httpVars, streamVars, appVars, loopVars, fwdVars, g1Vars, g2Vars, connVars, localVars,
                 pToSend, tIn, pFin, tOut, tOutFin, pRecv, histVars>>

PeerReset ==
  /\ fpc = "wait" /\ ~tReset /\ ~tClosed
  /\ tReset' = TRUE
  /\ UNCHANGED <<httpVars, streamVars, appVars, loopVars, fwdVars, g1Vars, g2Vars, lDeadline, tDeadline, lReset,
                 lClosed, tClosed, sessExpired, localVars, peerVars, histVars>>

\* ===========================================================================
\* fwdHttp (src/unnamed/part_001) through net/http/httputil.ReverseProxy.
\* Strings are sequences of tokens; a token stands for a run of characters of
\* one class (letters, digits) or for one punctuation character.
\* ===========================================================================
Letters == {"http", "https", "HTTP", "ftp", "h", "a", "y"}
Digits == {"8", "1"}

\* Validated HTTP(S) targets (config requires scheme http/https and a port):
\* http://h:8 and https://h:8/a
TargetAddrs == { <<"http", ":", "/", "/", "h", ":", "8">>,
                 <<"https", ":", "/", "/", "h", ":", "8", "/", "a">> }

\* req.URL of an inbound server request (origin-form or asterisk-form):
\* /a?y=1, /, *, //h/a, /a?
InboundURIs ==
  { [path |-> <<"/", "a">>, query |-> <<"y", "=", "1">>, force |-> FALSE],
    [path |-> <<"/">>, query |-> <<>>, force |-> FALSE],
    [path |-> <<"*">>, query |-> <<>>, force |-> FALSE],
    [path |-> <<"/", "/", "h", "/", "a">>, query |-> <<>>, force |-> FALSE],
    [path |-> <<"/", "a">>, query |-> <<>>, force |-> TRUE] }

\* The Host header of inbound requests.
InboundHost == <<"p">>
\* net.SplitHostPort(req.RemoteAddr) host part.
ClientIP == "10.0.0.9"

\* url.URL.RequestURI: EscapedPath (or "/"), then "?"+RawQuery if any.
RequestURIPathOnly(u) == IF u.path = <<>> THEN <<"/">> ELSE u.path

RequestURI(u) ==
  LET p == IF u.path = <<>> THEN <<"/">> ELSE u.path
  IN IF u.force \/ u.query # <<>> THEN p \o <<"?">> \o u.query ELSE p

\* Position of the first c in s, 0 if none.
IndexOf(s, c) ==
  IF \E i \in 1..Len(s) : s[i] = c
  THEN CHOOSE i \in 1..Len(s) : s[i] = c /\ \A j \in 1..(i - 1) : s[j] # c
  ELSE 0
\* Position of the last c in s, 0 if none.
LastIndexOf(s, c) ==
  IF \E i \in 1..Len(s) : s[i] = c
  THEN CHOOSE i \in 1..Len(s) : s[i] = c /\ \A j \in (i + 1)..Len(s) : s[j] # c
  ELSE 0
Drop(s, n) == SubSeq(s, n + 1, Len(s))
Take(s, n) == SubSeq(s, 1, n)
HasPrefix(s, pre) == Len(s) >= Len(pre) /\ Take(s, Len(pre)) = pre
Count(s, c) == Cardinality({ i \in 1..Len(s) : s[i] = c })

\* strings.ToLower on a token.
ToLowerTok(t) == IF t = "HTTP" THEN "http" ELSE t

NoURL == [ok |-> TRUE, scheme |-> <<>>, host |-> <<>>, path |-> <<>>,
          query |-> <<>>, force |-> FALSE, opaque |-> <<>>, omitHost |-> FALSE]
BadURL == [NoURL EXCEPT !.ok = FALSE]

\* url.getScheme: position of the scheme's ':' (0: no scheme, -1: error
\* "missing protocol scheme").
RECURSIVE SchemeEnd(_, _)
SchemeEnd(s, i) ==
  IF i > Len(s) THEN 0
  ELSE IF s[i] \in Letters THEN SchemeEnd(s, i + 1)
  ELSE IF s[i] \in Digits \cup {"+", "-", "."} THEN (IF i = 1 THEN 0 ELSE SchemeEnd(s, i + 1))
  ELSE IF s[i] = ":" THEN (IF i = 1 THEN -1 ELSE i)
  ELSE 0

\* url.validOptionalPort on the host's ":port" suffix.
ValidOptionalPort(hostport) ==
  LET i == LastIndexOf(hostport, ":")
  IN i = 0 \/ \A j \in (i + 1)..Len(hostport) : hostport[j] \in Digits

\* url.Parse (no fragment, no userinfo, no IPv6 literal in our inputs).
UrlParse(raw) ==
  IF raw = <<"*">> THEN [NoURL EXCEPT !.path = <<"*">>]
  ELSE
  LET se == SchemeEnd(raw, 1)
      scheme == IF se > 0 THEN [i \in 1..(se - 1) |-> ToLowerTok(raw[i])] ELSE <<>>
      r0 == IF se > 0 THEN Drop(raw, se) ELSE raw
      force == Len(r0) > 0 /\ r0[Len(r0)] = "?" /\ Count(r0, "?") = 1
      qi == IndexOf(r0, "?")
      r1 == IF force THEN Take(r0, Len(r0) - 1) ELSE IF qi > 0 THEN Take(r0, qi - 1) ELSE r0
      query == IF force THEN <<>> ELSE IF qi > 0 THEN Drop(r0, qi) ELSE <<>>
      hasAuth == (scheme # <<>> \/ ~HasPrefix(r1, <<"/", "/", "/">>)) /\ HasPrefix(r1, <<"/", "/">>)
      r2 == Drop(r1, 2)
      si == IndexOf(r2, "/")
      auth == IF si > 0 THEN Take(r2, si - 1) ELSE r2
      path == IF hasAuth THEN (IF si > 0 THEN Drop(r2, si - 1) ELSE <<>>) ELSE r1
      seg1 == IF IndexOf(r1, "/") > 0 THEN Take(r1, IndexOf(r1, "/") - 1) ELSE r1
  IN IF se = -1 THEN BadURL
     ELSE IF ~HasPrefix(r1, <<"/">>) /\ scheme # <<>>
          THEN [NoURL EXCEPT !.scheme = scheme, !.opaque = r1, !.query = query, !.force = force]
     ELSE IF ~HasPrefix(r1, <<"/">>) /\ IndexOf(seg1, ":") > 0 THEN BadURL
     ELSE IF hasAuth /\ ~ValidOptionalPort(auth) THEN BadURL
     ELSE [NoURL EXCEPT !.scheme = scheme, !.host = IF hasAuth THEN auth ELSE <<>>,
                        !.path = path, !.query = query, !.force = force,
                        !.omitHost = ~hasAuth /\ scheme # <<>> /\ HasPrefix(r1, <<"/">>)]

\* url.URL.String for the URLs above.
URLString(u) ==
  LET q == IF u.force \/ u.query # <<>> THEN <<"?">> \o u.query ELSE <<>>
  IN IF u.opaque # <<>> THEN u.scheme \o <<":">> \o u.opaque \o q
     ELSE (IF u.scheme # <<>> THEN u.scheme \o <<":">> ELSE <<>>)
          \o (IF (u.scheme # <<>> \/ u.host # <<>>) /\ ~(u.omitHost /\ u.host = <<>>)
              THEN (IF u.host # <<>> \/ u.path # <<>> THEN <<"/", "/">> ELSE <<>>) \o u.host
              ELSE <<>>)
          \o (IF u.path # <<>> /\ u.path[1] # "/" /\ u.host # <<>> THEN <<"/">> ELSE <<>>)
          \o (IF u.scheme = <<>> /\ u.host = <<>> /\ IndexOf(u.path, ":") > 0
                 /\ (IndexOf(u.path, "/") = 0 \/ IndexOf(u.path, ":") < IndexOf(u.path, "/"))
              THEN <<".", "/">> ELSE <<>>)
          \o u.path \o q

\* The URL the server parsed from the request line (path and query only).
InboundURL(u) == [NoURL EXCEPT !.path = u.path, !.query = u.query, !.force = u.force]

\* -- http.Header: canonical name |-> list of values (token sequences) --
EmptyHdr == [k \in {} |-> <<>>]
HdrDel(h, n) == [k \in DOMAIN h \ {n} |-> h[k]]
HdrDelAll(h, S) == [k \in DOMAIN h \ S |-> h[k]]
HdrSet(h, n, v) == [k \in (DOMAIN h) \cup {n} |-> IF k = n THEN <<v>> ELSE h[k]]
\* httpguts.HeaderValuesContainsToken(h[n], tok)
ContainsToken(h, n, tok) ==
  n \in DOMAIN h /\ \E i \in 1..Len(h[n]) : \E j \in 1..Len(h[n][i]) : h[n][i][j] = tok
\* strings.Join(vals, ", ")
RECURSIVE JoinVals(_)
JoinVals(vals) ==
  IF Len(vals) = 0 THEN <<>>
  ELSE IF Len(vals) = 1 THEN vals[1]
  ELSE vals[1] \o <<",">> \o JoinVals(Tail(vals))

\* hopHeaders of fwdHttp's Director, in source order (all already in
\* canonical form, so Header.Del's CanonicalMIMEHeaderKey leaves them as is).
HopHeaderList == <<"Connection", "Keep-Alive", "Proxy-Authenticate", "Proxy-Authorization",
                   "Te", "Trailers", "Transfer-Encoding", "Upgrade", "Proxy-Connection">>
HopHeaders == { HopHeaderList[i] : i \in DOMAIN HopHeaderList }
\* httputil's own hopHeaders list.
StdHopHeaders == {"Connection", "Proxy-Connection", "Keep-Alive", "Proxy-Authenticate",
                  "Proxy-Authorization", "Te", "Trailer", "Transfer-Encoding", "Upgrade"}

\* Inbound request headers: Connection, Te, Upgrade, the other hop-by-hop
\* headers, an end-to-end X-Foo, X-Forwarded-For and User-Agent.
MkHdr(c, te, up, hops, xfoo, xff, ua) ==
  LET names == (IF c # "none" THEN {"Connection"} ELSE {})
               \cup (IF te # "none" THEN {"Te"} ELSE {})
               \cup (IF up THEN {"Upgrade"} ELSE {})
               \cup (IF hops THEN {"Keep-Alive", "Proxy-Authenticate", "Proxy-Authorization", "Trailers",
                                  "Transfer-Encoding", "Proxy-Connection"} ELSE {})
               \cup (IF xfoo THEN {"X-Foo"} ELSE {})
               \cup (IF xff THEN {"X-Forwarded-For"} ELSE {})
               \cup (IF ua THEN {"User-Agent"} ELSE {})
  IN [k \in names |->
        CASE k = "Connection" -> <<<<c>>>>
          [] k = "Te" -> <<<<te>>>>
          [] k = "Upgrade" -> <<<<"websocket">>>>
          [] k = "X-Foo" -> <<<<"1">>>>
          [] k = "X-Forwarded-For" -> <<<<"9.9.9.9">>>>
          [] k = "User-Agent" -> <<<<"curl">>>>
          [] OTHER -> <<<<"v">>>>]

InHeaders ==
  { MkHdr(c, te, up, hops, xfoo, xff, ua) :
      c \in {"none", "X-Foo", "Upgrade"}, te \in {"none", "trailers", "gzip"},
      up \in BOOLEAN, hops \in BOOLEAN, xfoo \in BOOLEAN, xff \in BOOLEAN, ua \in BOOLEAN }

\* httputil removeHopByHopHeaders: the headers named in Connection, then the
\* standard list.
RemoveHopByHop(h) ==
  LET named == IF "Connection" \in DOMAIN h
               THEN UNION { { h["Connection"][i][j] : j \in 1..Len(h["Connection"][i]) }
                            : i \in 1..Len(h["Connection"]) } \ {","}
               ELSE {}
  IN HdrDelAll(h, named \cup StdHopHeaders)

\* httputil upgradeType
UpgradeType(h) ==
  IF ContainsToken(h, "Connection", "Upgrade") /\ "Upgrade" \in DOMAIN h /\ Len(h["Upgrade"]) > 0
  THEN h["Upgrade"][1] ELSE <<>>

\* ReverseProxy.ServeHTTP with a Director: X-Forwarded-For gets the client IP
\* appended to any prior values.
SetXFF(h) ==
  LET prior == IF "X-Forwarded-For" \in DOMAIN h THEN h["X-Forwarded-For"] ELSE <<>>
  IN HdrSet(h, "X-Forwarded-For",
            IF Len(prior) > 0 THEN JoinVals(prior) \o <<",", ClientIP>> ELSE <<ClientIP>>)

\* The Director's header step: for _, h := range hopHeaders { req.Header.Del(h) }
DirectorHeadersBreak(h) ==
  LET P == { i \in DOMAIN HopHeaderList : HopHeaderList[i] \in DOMAIN h }
  IN IF P = {} THEN h ELSE HdrDel(h, HopHeaderList[CHOOSE i \in P : \A j \in P : i <= j])
DirectorHeaders(h) ==
  LET RECURSIVE DelEach(_, _)
      DelEach(x, names) == IF names = <<>> THEN x ELSE DelEach(HdrDel(x, Head(names)), Tail(names))
  IN DelEach(h, HopHeaderList)

\* ReverseProxy.ServeHTTP's own hop-by-hop step on the Director's output h,
\* for an inbound request with headers in: removeHopByHopHeaders, then
\* "Te: trailers" again when the inbound Te lists trailers.
ProxyHopStrip(h, in) ==
  LET h1 == RemoveHopByHop(h)
  IN IF ContainsToken(in, "Te", "trailers") THEN HdrSet(h1, "Te", <<"trailers">>) ELSE h1


HttpIdle ==
  /\ hTarget = <<>> /\ hUri = [path |-> <<>>, query |-> <<>>, force |-> FALSE] /\ hHdr = EmptyHdr /\ hBody = <<>> /\ hpc = "idle"
  /\ parsedError = FALSE /\ proxyError = "nil" /\ outURL = NoURL /\ outHost = <<>>
  /\ outHdr = EmptyHdr /\ outBody = <<>> /\ hSent = FALSE /\ rtOut = "none"
  /\ responses = 0 /\ status = 0 /\ hResult = "none"

StreamIdle == sMode = "none" /\ sPc = "idle" /\ sElapsed = 0 /\ sCut = FALSE

MaxIsoSessions == 2   \* concurrently accepted TCP connections traced

MainIdle ==
  /\ cfgTarget = <<>> /\ cfgProxy = FALSE /\ cfgSkip = TRUE /\ cfgMode = "" /\ cfgErrs = {}
  /\ mainPc = "idle" /\ strategy = "none" /\ trSet = FALSE /\ trSkip = FALSE /\ relays = <<>>

TpIdle ==
  /\ tpConn = "none" /\ tpProto = "none" /\ tpHostHdr = "absent" /\ tpUri = "" /\ tpPc = "idle" /\ tpHost = ""
  /\ tpTls = FALSE /\ tpHandled = FALSE /\ tpTarget = "" /\ tpFwd = FALSE /\ tpDialed = FALSE
  /\ tpStatus = 0

IsoIdle ==
  LET K == 1..MaxIsoSessions IN
  /\ isoCur = 0 /\ isoAccepted = 0 /\ isoArg = [k \in K |-> 0] /\ isoOwn = [k \in K |-> 0]
  /\ isoLocal = [k \in K |-> <<>>] /\ isoReset = [k \in K |-> FALSE] /\ isoCut = [k \in K |-> FALSE]
  /\ isoOut = [k \in K |-> <<>>]
  /\ isoRes = [k \in K |-> "none"] /\ isoRemote = [k \in K |-> <<>>] /\ isoBack = [k \in K |-> <<>>]

RtIdle ==
  /\ rtTarget = "none" /\ rtPc = "idle" /\ rtElapsed = 0 /\ rtClientGone = FALSE /\ rtResult = "none"

AppIdle == MainIdle /\ TpIdle /\ IsoIdle /\ RtIdle

Init == TcpInit /\ HttpIdle /\ StreamIdle /\ AppIdle

\* fwdHttp is called with one inbound request.
HttpInit ==
  /\ TcpInit /\ lToSend = <<>> /\ pToSend = <<>> /\ StreamIdle /\ AppIdle
  /\ hTarget \in TargetAddrs /\ hUri \in InboundURIs /\ hHdr \in InHeaders
  /\ hBody \in {<<>>, <<"b">>} /\ hpc = "start"
  /\ parsedError = FALSE /\ proxyError = "nil" /\ outURL = NoURL /\ outHost = <<>>
  /\ outHdr = EmptyHdr /\ outBody = <<>> /\ hSent = FALSE /\ rtOut = "none"
  /\ responses = 0 /\ status = 0 /\ hResult = "none"

\* mu.Lock(); if parsedError { return proxyError }; mu.Unlock() -- checked
\* before proxy.ServeHTTP runs the Director.
HttpPrecheck ==
  /\ hpc = "start"
  /\ IF parsedError THEN hpc' = "done" /\ hResult' = proxyError ELSE hpc' = "director" /\ UNCHANGED hResult
  /\ UNCHANGED <<tcpVars, streamVars, appVars, hTarget, hUri, hHdr, hBody, parsedError, proxyError,
                 outURL, outHost, outHdr, outBody, hSent, rtOut, responses, status>>

\* ServeHTTP: outreq := req.Clone (Body nil when ContentLength is 0), then the
\* Director: url.Parse(targetAddr + req.URL.RequestURI()); on error record
\* "invalid target URL" and return leaving outreq untouched; else set URL,
\* Host and delete hopHeaders.
HttpDirectorWrites ==
  /\ hpc = "director"
  /\ outBody' = hBody
  /\ LET pr == UrlParse(hTarget \o RequestURI(hUri)) IN
     IF pr.ok
     THEN /\ outURL' = pr /\ outHost' = pr.host /\ outHdr' = DirectorHeaders(hHdr)
          /\ UNCHANGED <<parsedError, proxyError, responses, status>>
     ELSE /\ outURL' = InboundURL(hUri) /\ outHost' = InboundHost /\ outHdr' = hHdr
          /\ proxyError' = "invalidTarget" /\ parsedError' = TRUE
          /\ responses' = responses + 1 /\ status' = 502
  /\ hpc' = "prepare"
  /\ UNCHANGED <<tcpVars, streamVars, appVars, hTarget, hUri, hHdr, hBody, hSent, rtOut, hResult>>

HttpDirector ==
  /\ hpc = "director"
  /\ outBody' = hBody
  /\ LET pr == UrlParse(hTarget \o RequestURI(hUri)) IN
     IF pr.ok
     THEN /\ outURL' = pr /\ outHost' = pr.host /\ outHdr' = DirectorHeaders(hHdr)
          /\ UNCHANGED <<parsedError, proxyError>>
     ELSE /\ outURL' = InboundURL(hUri) /\ outHost' = InboundHost /\ outHdr' = hHdr
          /\ proxyError' = "invalidTarget" /\ parsedError' = TRUE
  /\ hpc' = "prepare"
  /\ UNCHANGED <<tcpVars, streamVars, appVars, hTarget, hUri, hHdr, hBody, hSent, rtOut,
                 responses, status, hResult>>

\* ServeHTTP after the Director: upgradeType, removeHopByHopHeaders,
\* "Te: trailers" when the inbound Te lists trailers, Connection/Upgrade for
\* an upgrade, X-Forwarded-For, and an empty User-Agent when none.
HttpPrepare ==
  /\ hpc = "prepare"
  /\ LET up == UpgradeType(outHdr)
         h2 == ProxyHopStrip(outHdr, hHdr)
         h3 == IF up # <<>> THEN HdrSet(HdrSet(h2, "Connection", <<"Upgrade">>), "Upgrade", up) ELSE h2
         h4 == SetXFF(h3)
     IN outHdr' = IF "User-Agent" \notin DOMAIN h4 THEN HdrSet(h4, "User-Agent", <<>>) ELSE h4
  /\ hpc' = "roundtrip"
  /\ UNCHANGED <<tcpVars, streamVars, appVars, hTarget, hUri, hHdr, hBody, parsedError, proxyError,
                 outURL, outHost, outBody, hSent, rtOut, responses, status, hResult>>

\* The ErrorHandler: http.Error(w, ..., 502); mu.Lock(); proxyError = err.
ErrorHandlerNoStore(err) ==
  /\ responses' = responses + 1 /\ status' = 502 /\ proxyError' = proxyError
ErrorHandler(err) ==
  /\ responses' = responses + 1 /\ status' = 502 /\ proxyError' = err

\* transport.RoundTrip(outreq): rejects a URL without http/https scheme or
\* without host; otherwise sends it and gets a response or an error
\* (connect, timeout, transport).
HttpRoundTrip ==
  /\ hpc = "roundtrip"
  /\ IF outURL.scheme \notin {<<"http">>, <<"https">>} \/ outURL.host = <<>>
     THEN LET e == IF outURL.scheme \notin {<<"http">>, <<"https">>} THEN "unsupportedScheme" ELSE "noHost"
          IN rtOut' = e /\ ErrorHandler(e) /\ hpc' = "return" /\ UNCHANGED hSent
     ELSE /\ hSent' = TRUE
          /\ \E o \in {"ok", "dialErr"} :
               /\ rtOut' = o
               /\ IF o = "ok"
                  THEN responses' = responses + 1 /\ status' = 200 /\ hpc' = "copy"
                       /\ UNCHANGED proxyError
                  ELSE ErrorHandler(o) /\ hpc' = "return"
  /\ UNCHANGED <<tcpVars, streamVars, appVars, hTarget, hUri, hHdr, hBody, parsedError,
                 outURL, outHost, outHdr, outBody, hResult>>

\* copyResponse streams the body; on a copy error ServeHTTP panics with
\* http.ErrAbortHandler and fwdHttp does not return.
HttpCopy ==
  /\ hpc = "copy"
  /\ \E ok \in BOOLEAN : hpc' = IF ok THEN "return" ELSE "aborted"
  /\ UNCHANGED <<tcpVars, streamVars, appVars, hTarget, hUri, hHdr, hBody, parsedError, proxyError,
                 outURL, outHost, outHdr, outBody, hSent, rtOut, responses, status, hResult>>

\* mu.Lock(); defer mu.Unlock(); return proxyError
HttpReturn ==
  /\ hpc = "return"
  /\ hpc' = "done" /\ hResult' = proxyError
  /\ UNCHANGED <<tcpVars, streamVars, appVars, hTarget, hUri, hHdr, hBody, parsedError, proxyError,
                 outURL, outHost, outHdr, outBody, hSent, rtOut, responses, status>>

HttpNext == HttpPrecheck \/ HttpDirector \/ HttpPrepare \/ HttpRoundTrip \/ HttpCopy \/ HttpReturn

HttpSpec == HttpInit /\ [][HttpNext]_vars

\* ---- http.Server streaming one response (main, HTTP-family modes) --------
MaxStreamSecs == 90   \* cap on the streaming clock (seconds)

\* http.Server{ReadHeaderTimeout: 5 * time.Second, WriteTimeout: 0} for both
\* the tailnet-proxy and the HTTP/HTTPS server.
ReadHeaderTimeoutSecs == 5
ReadHeaderTimeoutOf(mode) == ReadHeaderTimeoutSecs
WriteTimeout60(mode) == 60
WriteTimeoutOf(mode) == 0

StreamInit ==
  /\ TcpInit /\ lToSend = <<>> /\ pToSend = <<>> /\ HttpIdle /\ AppIdle
  /\ sMode \in {"tailnet", "http"} /\ sPc = "headers" /\ sElapsed = 0 /\ sCut = FALSE

\* The request headers arrive within ReadHeaderTimeout; the handler starts
\* streaming its response (the write deadline starts now).
StreamHeadersRead ==
  /\ sPc = "headers" /\ sPc' = "streaming"
  /\ UNCHANGED <<tcpVars, httpVars, appVars, sMode, sElapsed, sCut>>

\* A client that does not finish its headers is dropped at ReadHeaderTimeout.
StreamSlowHeaders ==
  /\ sPc = "headers" /\ ReadHeaderTimeoutOf(sMode) > 0 /\ sPc' = "closed"
  /\ UNCHANGED <<tcpVars, httpVars, appVars, sMode, sElapsed, sCut>>

\* One second of streaming; a write past the WriteTimeout deadline fails and
\* the server cuts the response.
StreamTick ==
  /\ sPc = "streaming" /\ sElapsed < MaxStreamSecs
  /\ sElapsed' = sElapsed + 1
  /\ IF WriteTimeoutOf(sMode) > 0 /\ sElapsed + 1 >= WriteTimeoutOf(sMode)
     THEN sCut' = TRUE /\ sPc' = "closed"
     ELSE UNCHANGED <<sCut, sPc>>
  /\ UNCHANGED <<tcpVars, httpVars, appVars, sMode>>

\* The upstream response ends and the handler returns.
StreamEnd ==
  /\ sPc = "streaming" /\ sPc' = "done"
  /\ UNCHANGED <<tcpVars, httpVars, appVars, sMode, sElapsed, sCut>>

StreamNext == StreamHeadersRead \/ StreamSlowHeaders \/ StreamTick \/ StreamEnd

StreamSpec == StreamInit /\ [][StreamNext]_vars

\* ---- configuration (LoadConfig / validateConfig) and main ---------------
MaxRelays == 2   \* forwarding tasks (sessions or requests) traced per run

\* TARGET_ADDR values, as token sequences: h:8, http://h:8, https://h:8,
\* HTTP://h:8, (empty), ftp://h:8, h, http://, http://h, h:
ConfigTargets ==
  { <<"h", ":", "8">>,
    <<"http", ":", "/", "/", "h", ":", "8">>,
    <<"https", ":", "/", "/", "h", ":", "8">>,
    <<"HTTP", ":", "/", "/", "h", ":", "8">>,
    <<>>,
    <<"ftp", ":", "/", "/", "h", ":", "8">>,
    <<"h">>,
    <<"http", ":", "/", "/">>,
    <<"http", ":", "/", "/", "h">>,
    <<"h", ":">> }

\* Position of the first "://" in s, 0 if none.
SepIndex(s) ==
  IF \E i \in 1..(Len(s) - 2) : s[i] = ":" /\ s[i + 1] = "/" /\ s[i + 2] = "/"
  THEN CHOOSE i \in 1..(Len(s) - 2) : /\ s[i] = ":" /\ s[i + 1] = "/" /\ s[i + 2] = "/"
                                     /\ \A j \in 1..(i - 1) : ~(s[j] = ":" /\ s[j + 1] = "/" /\ s[j + 2] = "/")
  ELSE 0

\* protocol: strings.ToLower(parts[0]) of strings.SplitN(addr, "://", 2),
\* "" when there is no "://".
Protocol(addr) ==
  LET i == SepIndex(addr)
  IN IF i = 0 THEN <<>> ELSE [j \in 1..(i - 1) |-> ToLowerTok(addr[j])]

\* determineAndValidateTrafficType's switch on the protocol.
TrafficTypeNoLower(addr) ==
  LET i == SepIndex(addr)
      p == IF i = 0 THEN <<>> ELSE Take(addr, i - 1)
  IN IF p = <<"http">> THEN "http" ELSE IF p = <<"https">> THEN "https" ELSE "tcp"
TrafficType(addr) ==
  LET p == Protocol(addr)
  IN IF p = <<"http">> THEN "http" ELSE IF p = <<"https">> THEN "https" ELSE "tcp"

\* net.SplitHostPort (no '[' or ']' in our inputs): error when there is no
\* ':' or when the host part before the last ':' contains another ':'.
SplitHostPortOk(addr) ==
  LET i == LastIndexOf(addr, ":")
  IN i > 0 /\ IndexOf(Take(addr, i - 1), ":") = 0

\* validateHTTPAddress: url.Parse succeeds and the host is not empty.
ValidHTTPAddress(addr) ==
  LET u == UrlParse(addr) IN u.ok /\ u.host # <<>>

\* validateConfig: the traffic type and the target-addr errors.
ResolveModeTargetFirst(proxy, addr) ==
  IF addr # <<>> THEN TrafficType(addr) ELSE IF proxy THEN "tailnet_proxy" ELSE ""
ResolveMode(proxy, addr) ==
  IF proxy THEN "tailnet_proxy" ELSE IF addr = <<>> THEN "" ELSE TrafficType(addr)

ConfigErrors(proxy, addr) ==
  IF proxy THEN {}
  ELSE IF addr = <<>> THEN {"missingTargetAddr"}
  ELSE IF TrafficType(addr) \in {"http", "https"}
       THEN (IF ValidHTTPAddress(addr) THEN {} ELSE {"targetAddrInvalid"})
       ELSE (IF SplitHostPortOk(addr) THEN {} ELSE {"targetAddrInvalid"})

\* The switch on cfg.ForwardTrafficType in main.
StrategyForNoTailnet(mode) ==
  IF mode \in {"http", "https"} THEN "httpHandler" ELSE "tcpLoop"
StrategyFor(mode) ==
  CASE mode = "tailnet_proxy" -> "tailnetHandler"
    [] mode \in {"http", "https"} -> "httpHandler"
    [] OTHER -> "tcpLoop"

\* &http.Transport{TLSClientConfig: &tls.Config{InsecureSkipVerify: cfg.InsecureSkipVerify}}
TransportSkipLegacy(skip) == TRUE
TransportSkip(skip) == skip

\* The process starts with TARGET_ADDR, PROXY_MODE and INSECURE_SKIP_VERIFY
\* from the environment (TS_AUTHKEY and LISTEN_PORT valid).
MainInit ==
  /\ TcpInit /\ lToSend = <<>> /\ pToSend = <<>> /\ HttpIdle /\ StreamIdle
  /\ cfgTarget \in ConfigTargets /\ cfgProxy \in BOOLEAN /\ cfgSkip \in BOOLEAN
  /\ cfgMode = "" /\ cfgErrs = {} /\ mainPc = "start" /\ strategy = "none"
  /\ trSet = FALSE /\ trSkip = FALSE /\ relays = <<>>
  /\ TpIdle /\ IsoIdle /\ RtIdle

\* cfg, errs := LoadConfig(); if len(errs) > 0 { os.Exit(1) }
MainLoadConfig ==
  /\ mainPc = "start"
  /\ cfgMode' = ResolveMode(cfgProxy, cfgTarget)
  /\ cfgErrs' = ConfigErrors(cfgProxy, cfgTarget)
  /\ mainPc' = IF ConfigErrors(cfgProxy, cfgTarget) # {} THEN "exit" ELSE "up"
  /\ UNCHANGED <<tcpVars, httpVars, streamVars, tpVars, isoVars, rtVars, cfgTarget, cfgProxy, cfgSkip, strategy, trSet, trSkip, relays>>

\* ts.Up(ctx) with a 30 s timeout, then os.MkdirAll; os.Exit(1) on error.
MainUp ==
  /\ mainPc = "up"
  /\ \E ok \in BOOLEAN : mainPc' = IF ok THEN "listen" ELSE "exit"
  /\ UNCHANGED <<tcpVars, httpVars, streamVars, tpVars, isoVars, rtVars, cfgTarget, cfgProxy, cfgSkip, cfgMode, cfgErrs,
                 strategy, trSet, trSkip, relays>>

\* net.Listen("tcp", listenAddr); os.Exit(1) on error.
MainListen ==
  /\ mainPc = "listen"
  /\ \E ok \in BOOLEAN : mainPc' = IF ok THEN "transport" ELSE "exit"
  /\ UNCHANGED <<tcpVars, httpVars, streamVars, tpVars, isoVars, rtVars, cfgTarget, cfgProxy, cfgSkip, cfgMode, cfgErrs,
                 strategy, trSet, trSkip, relays>>

\* transport := &http.Transport{...}; httpClient := &http.Client{Transport: transport}
MainTransport ==
  /\ mainPc = "transport"
  /\ trSet' = TRUE /\ trSkip' = TransportSkip(cfgSkip) /\ mainPc' = "dispatch"
  /\ UNCHANGED <<tcpVars, httpVars, streamVars, tpVars, isoVars, rtVars, cfgTarget, cfgProxy, cfgSkip, cfgMode, cfgErrs,
                 strategy, relays>>

\* switch cfg.ForwardTrafficType: server.Serve(listener) with the tailnet
\* proxy or the fixed-target handler, or the TCP accept loop.
MainDispatchEarly ==
  /\ mainPc \in {"transport", "dispatch"}
  /\ strategy' = StrategyFor(cfgMode) /\ mainPc' = "serving"
  /\ UNCHANGED <<tcpVars, httpVars, streamVars, tpVars, isoVars, rtVars, cfgTarget, cfgProxy, cfgSkip, cfgMode, cfgErrs,
                 trSet, trSkip, relays>>
MainDispatch ==
  /\ mainPc = "dispatch"
  /\ strategy' = StrategyFor(cfgMode) /\ mainPc' = "serving"
  /\ UNCHANGED <<tcpVars, httpVars, streamVars, tpVars, isoVars, rtVars, cfgTarget, cfgProxy, cfgSkip, cfgMode, cfgErrs,
                 trSet, trSkip, relays>>

\* One forwarding task (a TCP session, or a request to the installed
\* handler) runs with the shared transport. It relays over TLS when the
\* fixed target is https:// (the tailnet proxy's target is http:// since the
\* plain listener never sets r.TLS; TCP sessions use ts.Dial directly).
MainForward ==
  /\ mainPc = "serving" /\ Len(relays) < MaxRelays
  /\ relays' = Append(relays, [https |-> strategy = "httpHandler" /\ cfgMode = "https",
                               skip |-> trSkip, ready |-> trSet])
  /\ UNCHANGED <<tcpVars, httpVars, streamVars, tpVars, isoVars, rtVars, cfgTarget, cfgProxy, cfgSkip, cfgMode, cfgErrs,
                 mainPc, strategy, trSet, trSkip>>

\* server.Serve returns an error: os.Exit(1). The TCP loop never returns.
MainServeErr ==
  /\ mainPc = "serving" /\ strategy \in {"tailnetHandler", "httpHandler"}
  /\ mainPc' = "exit"
  /\ UNCHANGED <<tcpVars, httpVars, streamVars, tpVars, isoVars, rtVars, cfgTarget, cfgProxy, cfgSkip, cfgMode, cfgErrs,
                 strategy, trSet, trSkip, relays>>

MainNext ==
  MainLoadConfig \/ MainUp \/ MainListen \/ MainTransport \/ MainDispatch \/ MainForward \/ MainServeErr

MainSpec == MainInit /\ [][MainNext]_vars

\* ---- tailnet proxy: http.Server on the plain listener + TailnetProxy -----
\* net.Listen("tcp", ...) and server.Serve(listener): connections are never
\* TLS connections, so the server leaves r.TLS nil.
ListenerServesTLS == FALSE

\* Inbound connection kind, protocol version and Host header of a request.
TpConns == {"plain", "tls"}
TpProtos == {"1.0", "1.1"}
TpHostHdrs == {"absent", "", "machine1.ts.net", "m:8", "a.ts.net"}
TpUris == {"/", "/a?y=1", "/x/"}

TpUnchangedOthers == <<tcpVars, httpVars, streamVars, mainVars, isoVars, rtVars>>

TpInit ==
  /\ TcpInit /\ lToSend = <<>> /\ pToSend = <<>> /\ HttpIdle /\ StreamIdle /\ MainIdle
  /\ IsoIdle /\ RtIdle
  /\ tpConn \in TpConns /\ tpProto \in TpProtos /\ tpHostHdr \in TpHostHdrs /\ tpUri \in TpUris /\ tpPc = "read"
  /\ tpHost = "" /\ tpTls = FALSE /\ tpHandled = FALSE /\ tpTarget = "" /\ tpFwd = FALSE
  /\ tpDialed = FALSE /\ tpStatus = 0

\* http.Server readRequest: the bytes of a TLS handshake are a malformed
\* request line (400) when they contain a '\n'; otherwise the line never
\* ends and the connection is closed at ReadHeaderTimeout with no response; an HTTP/1.1 request without Host is rejected (400);
\* otherwise r.Host is the Host header ("" when absent or empty) and r.TLS
\* is set only for a TLS connection.
TpReadRequest ==
  /\ tpPc = "read"
  /\ IF tpConn = "tls" /\ ~ListenerServesTLS
     THEN (\E st \in {400, 0} : tpStatus' = st) /\ tpPc' = "done" /\ UNCHANGED <<tpHost, tpTls>>
     ELSE IF tpProto = "1.1" /\ tpHostHdr = "absent"
     THEN tpStatus' = 400 /\ tpPc' = "done" /\ UNCHANGED <<tpHost, tpTls>>
     ELSE /\ tpHost' = IF tpHostHdr = "absent" THEN "" ELSE tpHostHdr
          /\ tpTls' = (tpConn = "tls" /\ ListenerServesTLS)
          /\ tpPc' = "handler" /\ UNCHANGED tpStatus
  /\ UNCHANGED <<TpUnchangedOthers, tpConn, tpProto, tpHostHdr, tpUri, tpHandled, tpTarget, tpFwd, tpDialed>>

\* fwdHttp(p.httpClient, targetURL, w, r): the transport dials the target's
\* host (RoundTrip rejects an empty host with a 502 and no dial) and the
\* response is relayed or a 502 written.
FwdHttpCall(target, host) ==
  /\ tpFwd' = TRUE /\ tpTarget' = target /\ tpDialed' = (host # "")
  /\ \E st \in (IF host # "" THEN {200, 502} ELSE {502}) : tpStatus' = st

\* scheme := "http://"; if r.TLS != nil { scheme = "https://" }
TargetSchemePlain(tls) == "http://"
TargetScheme(tls) == IF tls THEN "https://" ELSE "http://"

\* TailnetProxy.ServeHTTP: scheme from r.TLS, target = scheme + r.Host;
\* an empty Host gets 400 and returns.
TailnetServeHTTPNoHostCheck ==
  /\ tpPc = "handler" /\ tpHandled' = TRUE /\ tpPc' = "done"
  /\ FwdHttpCall(TargetScheme(tpTls) \o tpHost, tpHost)
  /\ UNCHANGED <<TpUnchangedOthers, tpConn, tpProto, tpHostHdr, tpUri, tpHost, tpTls>>
TailnetServeHTTP ==
  /\ tpPc = "handler" /\ tpHandled' = TRUE /\ tpPc' = "done"
  /\ LET targetURL == TargetScheme(tpTls) \o tpHost
     IN IF tpHost = ""
        THEN tpStatus' = 400 /\ UNCHANGED <<tpTarget, tpFwd, tpDialed>>
        ELSE FwdHttpCall(targetURL, tpHost)
  /\ UNCHANGED <<TpUnchangedOthers, tpConn, tpProto, tpHostHdr, tpUri, tpHost, tpTls>>

TpNext == TpReadRequest \/ TailnetServeHTTP

TpSpec == TpInit /\ [][TpNext]_vars

\* The handler on its own: ServeHTTP called with a request r whose Host is
\* any of the header values and whose r.TLS is nil (plain connection) or set
\* (TLS-terminated connection).
TpHandlerInit ==
  /\ TcpInit /\ lToSend = <<>> /\ pToSend = <<>> /\ HttpIdle /\ StreamIdle /\ MainIdle
  /\ IsoIdle /\ RtIdle
  /\ tpTls \in BOOLEAN /\ tpConn = (IF tpTls THEN "tls" ELSE "plain")
  /\ tpProto \in TpProtos /\ tpHostHdr \in TpHostHdrs \ {"absent"} /\ tpHost = tpHostHdr
  /\ tpUri \in TpUris /\ tpPc = "handler"
  /\ tpHandled = FALSE /\ tpTarget = "" /\ tpFwd = FALSE /\ tpDialed = FALSE /\ tpStatus = 0

TpHandlerSpec == TpHandlerInit /\ [][TailnetServeHTTP]_vars

\* ---- two concurrent TCP sessions of the accept loop (main, TCP branch) ---
\* The bytes the k-th accepted client sends (distinct per client).
IsoPayload(k) == <<k, k>>
\* The bytes the k-th session's target sends back (distinct per target and
\* from every client's bytes).
IsoPeerPayload(k) == <<MaxIsoSessions + k>>

IsoUnchangedOthers == <<tcpVars, httpVars, streamVars, mainVars, tpVars, rtVars>>

IsoInit ==
  /\ TcpInit /\ lToSend = <<>> /\ pToSend = <<>> /\ HttpIdle /\ StreamIdle /\ MainIdle
  /\ TpIdle /\ RtIdle /\ IsoIdle

\* conn, err := listener.Accept(); go func(c net.Conn){...}(conn): the
\* argument is evaluated at the go statement.
IsoAccept ==
  /\ isoAccepted < MaxIsoSessions
  /\ LET k == isoAccepted + 1 IN
       /\ isoCur' = k /\ isoAccepted' = k
       /\ isoArg' = [isoArg EXCEPT ![k] = k]
       /\ isoLocal' = [isoLocal EXCEPT ![k] = IsoPayload(k)]
  /\ UNCHANGED <<IsoUnchangedOthers, isoOwn, isoReset, isoCut, isoOut, isoRes, isoRemote, isoBack>>

\* The connection a session's goroutine forwards: its parameter c.
SessionConnShared(g) == isoCur
SessionConn(g) == isoArg[g]

\* The goroutine starts: c.SetDeadline, fwdTCP(c, ...) dials its own
\* outbound connection g; when ts.Dial fails (refused, or the 10 s dial
\* timeout) fwdTCP returns the dial error and relays nothing.
IsoStart(g) ==
  /\ isoArg[g] # 0 /\ isoOwn[g] = 0
  /\ isoOwn' = [isoOwn EXCEPT ![g] = SessionConn(g)]
  /\ \E dialOk \in BOOLEAN :
       /\ isoRes' = IF dialOk THEN isoRes ELSE [isoRes EXCEPT ![g] = "dialErr"]
       /\ isoRemote' = IF dialOk THEN [isoRemote EXCEPT ![g] = IsoPeerPayload(g)] ELSE isoRemote
  /\ UNCHANGED <<IsoUnchangedOthers, isoCur, isoAccepted, isoArg, isoLocal, isoReset, isoCut, isoOut, isoBack>>

\* Session g's own outbound side ends it early: its target closes (the
\* reverse copy's deferred lstConn.SetDeadline(now) stops the forward copy)
\* or resets the connection, or main's 5-minute deadline on its client
\* connection expires.
IsoCut(g) ==
  /\ isoOwn[g] # 0 /\ isoRes[g] = "none" /\ ~isoCut[g]
  /\ isoCut' = [isoCut EXCEPT ![g] = TRUE]
  /\ UNCHANGED <<IsoUnchangedOthers, isoCur, isoAccepted, isoArg, isoOwn, isoLocal, isoReset, isoOut, isoRes,
                 isoRemote, isoBack>>

\* fwdTCP's io.Copy(tsConn, lstConn) moves one byte of the session's local
\* connection to its outbound connection.
IsoCopy(g) ==
  LET c == isoOwn[g] IN
  /\ c # 0 /\ isoRes[g] = "none" /\ ~isoReset[c] /\ ~isoCut[g] /\ isoLocal[c] # <<>>
  /\ isoOut' = [isoOut EXCEPT ![g] = Append(@, Head(isoLocal[c]))]
  /\ isoLocal' = [isoLocal EXCEPT ![c] = Tail(@)]
  /\ UNCHANGED <<IsoUnchangedOthers, isoCur, isoAccepted, isoArg, isoOwn, isoReset, isoCut, isoRes,
                 isoRemote, isoBack>>

\* fwdTCP's io.Copy(lstConn, tsConn) moves one byte of the session's
\* outbound connection to its local connection.
IsoCopyBack(g) ==
  LET c == isoOwn[g] IN
  /\ c # 0 /\ isoRes[g] = "none" /\ ~isoReset[c] /\ ~isoCut[g] /\ isoRemote[g] # <<>>
  /\ isoBack' = [isoBack EXCEPT ![c] = Append(@, Head(isoRemote[g]))]
  /\ isoRemote' = [isoRemote EXCEPT ![g] = Tail(@)]
  /\ UNCHANGED <<IsoUnchangedOthers, isoCur, isoAccepted, isoArg, isoOwn, isoLocal, isoReset, isoCut,
                 isoOut, isoRes>>

\* The client of connection c resets it.
IsoReset(c) ==
  /\ c <= isoAccepted /\ ~isoReset[c]
  /\ isoReset' = [isoReset EXCEPT ![c] = TRUE]
  /\ UNCHANGED <<IsoUnchangedOthers, isoCur, isoAccepted, isoArg, isoOwn, isoLocal, isoCut, isoOut, isoRes,
                 isoRemote, isoBack>>

\* The copy fails (a reset client, or the cut of IsoCut); g.Wait() has cancelled groupCtx,
\* so fwdTCP returns nil.
IsoFail(g) ==
  LET c == isoOwn[g] IN
  /\ c # 0 /\ isoRes[g] = "none" /\ (isoReset[c] \/ isoCut[g])
  /\ isoRes' = [isoRes EXCEPT ![g] = FwdResult("copyErr", TRUE)]
  /\ UNCHANGED <<IsoUnchangedOthers, isoCur, isoAccepted, isoArg, isoOwn, isoLocal, isoReset, isoCut, isoOut,
                 isoRemote, isoBack>>

\* The client half-closes after its bytes were relayed: io.Copy(tsConn,
\* lstConn) returns nil, CloseWrite, and its deferred tsConn.SetDeadline(now)
\* makes the pending read of io.Copy(lstConn, tsConn) fail, dropping whatever
\* the target had not yet relayed (IsoCopyBack steps before this one are the
\* bytes that made it); g.Wait() has cancelled groupCtx, so fwdTCP returns nil.
IsoFinish(g) ==
  LET c == isoOwn[g] IN
  /\ c # 0 /\ isoRes[g] = "none" /\ ~isoReset[c] /\ ~isoCut[g]
  /\ isoLocal[c] = <<>>
  /\ isoRes' = [isoRes EXCEPT ![g] = FwdResult("nil", TRUE)]
  /\ UNCHANGED <<IsoUnchangedOthers, isoCur, isoAccepted, isoArg, isoOwn, isoLocal, isoReset, isoCut, isoOut,
                 isoRemote, isoBack>>

IsoNext ==
  \/ IsoAccept
  \/ \E g \in 1..MaxIsoSessions : IsoStart(g) \/ IsoCut(g) \/ IsoCopy(g) \/ IsoCopyBack(g) \/ IsoFail(g) \/ IsoFinish(g)
  \/ \E c \in 1..MaxIsoSessions : IsoReset(c)

IsoSpec == IsoInit /\ [][IsoNext]_vars

\* ---- fwdHttp's outbound round trip (ReverseProxy over the shared transport)
MaxRtSecs == 40   \* cap on the round-trip clock (seconds)

\* http.Transport{DialContext, TLSClientConfig, IdleConnTimeout: 90s}: no
\* ResponseHeaderTimeout (0 = none); ReverseProxy uses the transport
\* directly, so no http.Client timeout applies either.
ResponseHeaderTimeout30(x) == 30
ResponseHeaderTimeoutOf(x) == 0

RtUnchangedOthers == <<tcpVars, httpVars, streamVars, mainVars, tpVars, isoVars>>

\* The target accepts the connection and either answers or stays silent.
RtInit ==
  /\ TcpInit /\ lToSend = <<>> /\ pToSend = <<>> /\ HttpIdle /\ StreamIdle /\ MainIdle
  /\ TpIdle /\ IsoIdle
  /\ rtTarget \in {"responds", "silent"} /\ rtPc = "send" /\ rtElapsed = 0
  /\ rtClientGone = FALSE /\ rtResult = "none"

\* transport.RoundTrip(outreq): the connection is dialed and the request
\* written; it then waits for the response headers.
RtSend ==
  /\ rtPc = "send" /\ rtPc' = "waiting"
  /\ UNCHANGED <<RtUnchangedOthers, rtTarget, rtElapsed, rtClientGone, rtResult>>

\* The response headers arrive; ServeHTTP copies the response and returns.
RtResponse ==
  /\ rtPc = "waiting" /\ rtTarget = "responds"
  /\ rtPc' = "done" /\ rtResult' = "ok"
  /\ UNCHANGED <<RtUnchangedOthers, rtTarget, rtElapsed, rtClientGone>>

\* One second passes while waiting; the transport gives up only when a
\* response-header timeout is set and has expired.
RtTick ==
  /\ rtPc = "waiting" /\ rtElapsed < MaxRtSecs
  /\ rtElapsed' = rtElapsed + 1
  /\ IF ResponseHeaderTimeoutOf(rtTarget) > 0 /\ rtElapsed + 1 >= ResponseHeaderTimeoutOf(rtTarget)
     THEN rtPc' = "done" /\ rtResult' = "timeout"
     ELSE UNCHANGED <<rtPc, rtResult>>
  /\ UNCHANGED <<RtUnchangedOthers, rtTarget, rtClientGone>>

\* The inbound client disconnects (its own choice); the server cancels
\* r.Context(), which is outreq's context.
RtClientLeaves ==
  /\ rtPc # "done" /\ ~rtClientGone /\ rtClientGone' = TRUE
  /\ UNCHANGED <<RtUnchangedOthers, rtTarget, rtPc, rtElapsed, rtResult>>

\* RoundTrip returns context.Canceled; ErrorHandler runs and ServeHTTP returns.
RtCtxCancel ==
  /\ rtPc = "waiting" /\ rtClientGone
  /\ rtPc' = "done" /\ rtResult' = "canceled"
  /\ UNCHANGED <<RtUnchangedOthers, rtTarget, rtElapsed, rtClientGone>>

RtNext == RtSend \/ RtResponse \/ RtTick \/ RtClientLeaves \/ RtCtxCancel

RtSpec == RtInit /\ [][RtNext]_vars

\* The handler's and the transport's own steps are fair; the client and the
\* target behave as they choose.
RtFairSpec == RtSpec /\ WF_vars(RtSend) /\ WF_vars(RtResponse) /\ WF_vars(RtTick) /\ WF_vars(RtCtxCancel)

Next == AcceptOk \/ AcceptErr \/ (\E k \in 1..MaxSessions : TaskReturn(k))
     \/ DialTick \/ DialOk \/ DialRefused \/ DialTimedOut
     \/ G1ReadData \/ G1ReadEof \/ G1ReadErr \/ G1WriteData \/ G1WriteErr \/ G1HalfClose
     \/ G2ReadData \/ G2ReadEof \/ G2ReadErr \/ G2WriteData \/ G2WriteErr \/ G2HalfClose
     \/ FwdReturn
     \/ LocalSend \/ LocalFinish \/ LocalRecv \/ LocalSeeEof \/ LocalReset \/ SessionExpire
     \/ PeerSend \/ PeerFinish \/ PeerRecv \/ PeerSeeEof \/ PeerReset

Spec == Init /\ [][Next]_vars

\* The accept loop and the dial of the first accepted connection.
AcceptSpec ==
  Init /\ [][AcceptOk \/ AcceptErr \/ (\E k \in 1..MaxSessions : TaskReturn(k))
             \/ DialTick \/ DialOk \/ DialRefused \/ DialTimedOut]_vars

\* The loop itself is fair; the spawned goroutines need not ever return.
AcceptFairSpec == AcceptSpec /\ WF_vars(AcceptOk)

\* One forwarding session, from the state right after listener.Accept()
\* returned its connection and the spawned goroutine entered fwdTCP.
SessionInit ==
  /\ tasks = [k \in 1..MaxSessions |-> IF k = 1 THEN "running" ELSE "none"] /\ loop = "running" /\ acceptErrs = 0 /\ lastAcceptErr = "none" /\ spawned = 1
  /\ fpc = "dial" /\ dialState = "pending" /\ dialAttempts = 1 /\ dialElapsed = 0
  /\ result = "none" /\ ctxCancelled = FALSE /\ gctxCancelled = FALSE /\ gErr = "nil"
  /\ pc1 = "idle" /\ buf1 = <<>> /\ res1 = "none" /\ hc1 = FALSE
  /\ pc2 = "idle" /\ buf2 = <<>> /\ res2 = "none" /\ hc2 = FALSE
  /\ lDeadline = FALSE /\ tDeadline = FALSE /\ lReset = FALSE /\ tReset = FALSE
  /\ lClosed = FALSE /\ tClosed = FALSE /\ sessExpired = FALSE
  /\ lToSend \in Payloads(MaxLocalPayload) /\ lPayload = lToSend
  /\ lIn = <<>> /\ lFin = FALSE /\ lOut = <<>> /\ lOutFin = FALSE /\ lRecv = <<>> /\ lEOF = FALSE
  /\ pToSend \in Payloads(MaxPeerPayload) /\ pPayload = pToSend
  /\ tIn = <<>> /\ pFin = FALSE /\ tOut = <<>> /\ tOutFin = FALSE /\ pRecv = <<>> /\ pEOF = FALSE
  /\ HttpIdle /\ StreamIdle /\ AppIdle

SessionNext ==
     DialTick \/ DialOk \/ DialRefused \/ DialTimedOut
     \/ G1ReadData \/ G1ReadEof \/ G1ReadErr \/ G1WriteData \/ G1WriteErr \/ G1HalfClose
     \/ G2ReadData \/ G2ReadEof \/ G2ReadErr \/ G2WriteData \/ G2WriteErr \/ G2HalfClose
     \/ FwdReturn
     \/ LocalSend \/ LocalFinish \/ LocalRecv \/ LocalSeeEof \/ LocalReset \/ SessionExpire
     \/ PeerSend \/ PeerFinish \/ PeerRecv \/ PeerSeeEof \/ PeerReset

SessionSpec == SessionInit /\ [][SessionNext]_vars

\* ---- scheduling ------------------------------------------------------------
G1Step == G1ReadData \/ G1ReadEof \/ G1ReadErr \/ G1WriteData \/ G1WriteErr \/ G1HalfClose
G2Step == G2ReadData \/ G2ReadEof \/ G2ReadErr \/ G2WriteData \/ G2WriteErr \/ G2HalfClose

\* The Go scheduler runs every runnable goroutine, and the 5-minute
\* connection deadline set by main always eventually passes.
ProgFairSpec ==
  /\ SessionSpec
  /\ WF_vars(G1Step) /\ WF_vars(G2Step) /\ WF_vars(FwdReturn) /\ WF_vars(SessionExpire)

\* In addition, the outbound peer keeps reading its side of the connection.
FairSpec ==
  /\ ProgFairSpec
  /\ WF_vars(PeerRecv) /\ WF_vars(PeerSeeEof)

\* ---- claims ----------------------------------------------------------------
NoFault == ~lReset /\ ~tReset /\ ~sessExpired

\* C1: after a successful dial fwdTCP returns only when both copy goroutines
\* are done, and returns a non-nil error exactly when one of them failed.
C1_ReturnsFirstError ==
  /\ (fpc = "done" /\ dialState = "ok") => (pc1 = "done" /\ pc2 = "done")
  /\ (fpc = "done" /\ dialState = "ok") => (result # "nil" <=> gErr # "nil")

\* C2: once the local->remote copy ended on local EOF, the remote->local copy
\* keeps running: without a connection fault it never ends in an error.
C2_ReverseKeepsRunning ==
  (res1 = "nil" /\ NoFault) => res2 # "copyErr"

C4_ByteFidelity ==
  (dialState = "ok" /\ lFin /\ pFin /\ lEOF /\ pEOF /\ NoFault)
    => (pRecv = lPayload /\ lRecv = pPayload)

\* C5: every copy goroutine that finished attempted a half-close
\* of its destination.
C5_HalfCloseOnEveryEnd ==
  /\ pc1 = "done" => hc1
  /\ pc2 = "done" => hc2

\* C6: once a copy goroutine failed, both goroutines eventually finish.
C6_SiblingUnblocked ==
  (res1 = "copyErr" \/ res2 = "copyErr") ~> (pc1 = "done" /\ pc2 = "done")

\* C7: when fwdTCP has returned, lstConn is closed, and tsConn too if the
\* dial succeeded.
C7_ConnsClosed ==
  fpc = "done" => (lClosed /\ (dialState = "ok" => tClosed))

C7_Witness == fpc = "done" /\ dialState = "ok" /\ gErr # "nil" /\ lClosed /\ tClosed

\* C8: a failed dial is attempted once, closes lstConn, returns the wrapped
\* dial error and starts no copy goroutine.
C8_DialFailure ==
  dialState \in {"refused", "timeout"} =>
    /\ fpc = "done" /\ dialAttempts = 1 /\ lClosed /\ result = "dialErr"
    /\ pc1 = "idle" /\ pc2 = "idle"

C8_Witness == dialState = "timeout" /\ result = "dialErr" /\ lClosed

\* C9: ts.Dial never stays pending past the 10 s dial timeout.
C9_DialBounded ==
  fpc = "dial" => dialElapsed <= DialTimeout

C9_Witness == fpc = "dial" /\ dialElapsed = DialTimeout

\* C11: an Accept error leaves the loop running, and the next connection can
\* still be accepted and forwarded.
C11_AcceptErrNotFatal ==
  /\ lastAcceptErr = "transient" => loop = "running"
  /\ (lastAcceptErr = "transient" /\ spawned < MaxSessions) => ENABLED AcceptOk

C11_Witness == lastAcceptErr = "transient" /\ spawned = 0

\* C12: every accepted connection is handled by its own goroutine and the loop
\* never waits for one: even when no spawned goroutine ever returns, the loop
\* goes on accepting until MaxSessions connections are in flight.
C12_AcceptDoesNotWait ==
  <>(spawned = MaxSessions)

C12_Witness ==
  /\ spawned = MaxSessions
  /\ \A k \in 1..MaxSessions : tasks[k] = "running"
  /\ fpc \in {"dial", "wait"}

\* C13: every forwarding session whose dial succeeded eventually returns
\* (the 5-minute deadline bounds it whatever the peers do).
C13_SessionBounded ==
  fpc = "wait" ~> fpc = "done"

\* C14: both HTTP servers bound the header read and never cut a response
\* that streams longer than 60 s.
C14_LongStreamsNotCut ==
  /\ ReadHeaderTimeoutOf(sMode) > 0
  /\ ~sCut

C14_Witness == sPc = "streaming" /\ sElapsed > 60 /\ sMode = "tailnet"

\* C15: when url.Parse of the rewritten target fails, the caller gets a 502
\* and fwdHttp returns the "invalid target URL" parse error.
C15_ParseErrorReturned ==
  (hpc = "done" /\ parsedError) => (status = 502 /\ hResult = "invalidTarget")

\* C16: when the outbound exchange fails the caller gets a 502 and fwdHttp
\* returns that error; when it succeeds fwdHttp returns nil.
C16_TransportErrorReturned ==
  /\ (hpc = "done" /\ rtOut \notin {"none", "ok"}) => (status = 502 /\ hResult = rtOut)
  /\ (hpc = "done" /\ rtOut = "ok") => hResult = "nil"

C16_Witness == hpc = "done" /\ rtOut = "dialErr" /\ status = 502

\* C17: one request gets at most one response and one terminal error, also
\* when both the Director and the transport fail.
C17_OneResponseOneError ==
  /\ responses <= 1
  /\ hpc = "done" => (hResult # "none" /\ (hResult = "nil" <=> (~parsedError /\ rtOut = "ok")))

C17_Witness == hpc = "done" /\ parsedError /\ responses = 1 /\ hResult # "nil"

\* C18: a request the transport sends goes to the target base concatenated
\* with the inbound request URI, with the target's host as Host.
C18_FixedTargetRewrite ==
  hSent => /\ URLString(outURL) = hTarget \o hUri.path
                                    \o (IF hUri.force \/ hUri.query # <<>> THEN <<"?">> \o hUri.query ELSE <<>>)
           /\ outHost = UrlParse(hTarget).host

C18_Witness == hSent /\ hUri.query # <<>> /\ Len(UrlParse(hTarget).path) > 0

\* C19: the outbound request carries none of the nine hop-by-hop headers.
C19_NoHopHeaders ==
  hSent => (DOMAIN outHdr) \cap HopHeaders = {}

\* C20: apart from the hop-by-hop headers, the outbound headers
\* and body are the inbound ones.
C20_HeadersUnchanged ==
  hSent => (outHdr = HdrDelAll(hHdr, HopHeaders) /\ outBody = hBody)

\* C21: removing the hop-by-hop headers twice gives the same header set as
\* removing them once: the Director's loop run again on the request it
\* produced changes nothing, and neither does the whole removal (Director,
\* removeHopByHopHeaders, Te re-add) run again on its own output.
C21_StripIdempotent ==
  (hpc = "prepare" /\ ~parsedError) =>
    /\ DirectorHeaders(outHdr) = outHdr
    /\ LET Strip(h) == ProxyHopStrip(DirectorHeaders(h), h)
       IN Strip(Strip(hHdr)) = Strip(hHdr)

C21_Witness ==
  /\ hpc = "prepare" /\ ~parsedError
  /\ Cardinality(DOMAIN hHdr \cap HopHeaders) >= 2

\* C24: without proxy mode, an http:// or https:// target (scheme in any
\* case) resolves to HTTP or HTTPS, a target without "://" resolves to TCP and
\* is accepted iff it is a host:port pair; with proxy mode and no target the
\* mode is TAILNET_PROXY.
C24_ModeResolution ==
  mainPc \notin {"start"} =>
    LET t == cfgTarget
        low == [i \in DOMAIN t |-> ToLowerTok(t[i])]
    IN /\ (cfgProxy /\ t = <<>>) => cfgMode = "tailnet_proxy"
       /\ (~cfgProxy /\ HasPrefix(low, <<"http", ":", "/", "/">>)) => cfgMode = "http"
       /\ (~cfgProxy /\ HasPrefix(low, <<"https", ":", "/", "/">>)) => cfgMode = "https"
       /\ (~cfgProxy /\ t # <<>> /\ IndexOf(t, "/") = 0)
            => (cfgMode = "tcp" /\ (cfgErrs = {} <=> Count(t, ":") = 1))

C24_Witness == mainPc = "up" /\ ~cfgProxy /\ cfgTarget # <<>> /\ cfgTarget[1] = "HTTP"

\* C25: once serving, exactly one forwarding strategy is installed and it is
\* the one of the resolved mode; neither the mode nor the strategy changes.
C25_OneStrategy ==
  /\ [](mainPc = "serving" =>
          strategy = CASE cfgMode = "tailnet_proxy" -> "tailnetHandler"
                       [] cfgMode \in {"http", "https"} -> "httpHandler"
                       [] cfgMode = "tcp" -> "tcpLoop"
                       [] OTHER -> "invalid")
  /\ [][mainPc # "start" => (cfgMode' = cfgMode /\ (strategy # "none" => strategy' = strategy))]_vars

C25_Witness == mainPc = "serving" /\ cfgMode = "tailnet_proxy"

\* C26: every forwarding task runs after the transport is configured and sees
\* its one TLS policy; the transport never changes once configured.
C26_TransportFixed ==
  /\ [](\A i \in DOMAIN relays : relays[i].ready /\ relays[i].skip = trSkip)
  /\ [][trSet => (trSet' /\ trSkip' = trSkip)]_vars

C26_Witness == Len(relays) = MaxRelays

\* C27: every HTTPS relay skips certificate verification iff
\* INSECURE_SKIP_VERIFY says so.
C27_TlsPolicy ==
  \A i \in DOMAIN relays : relays[i].https => relays[i].skip = cfgSkip

C27_Witness == \E i \in DOMAIN relays : relays[i].https /\ ~cfgSkip

\* C30: with proxy mode the mode is TAILNET_PROXY whatever the target
\* address, the target is not validated, and the tailnet proxy is installed.
C30_ProxyWins ==
  (cfgProxy /\ mainPc # "start") =>
    /\ cfgMode = "tailnet_proxy" /\ cfgErrs = {}
    /\ (mainPc = "serving" => strategy = "tailnetHandler")

C30_Witness == cfgProxy /\ cfgTarget = <<"h">> /\ mainPc = "serving"

\* C22: ServeHTTP forwards a request with Host h to http://h when it came on
\* a plain connection (r.TLS nil) and to https://h when it came on a
\* TLS-terminated one (r.TLS set).
C22_HostRouting ==
  (tpPc = "done" /\ tpHostHdr \notin {"absent", ""}) =>
    (tpFwd /\ tpTarget = (IF tpConn = "tls" THEN "https://" ELSE "http://") \o tpHostHdr)

C22_Witness ==
  /\ tpPc = "done" /\ tpTls /\ tpFwd /\ tpTarget = "https://machine1.ts.net"

C28_SessionIsolation ==
  \A g \in 1..MaxIsoSessions :
    isoArg[g] # 0 =>
      /\ Len(isoOut[g]) <= Len(IsoPayload(g))
      /\ isoOut[g] = Take(IsoPayload(g), Len(isoOut[g]))
      /\ Len(isoBack[g]) <= Len(IsoPeerPayload(g))
      /\ isoBack[g] = Take(IsoPeerPayload(g), Len(isoBack[g]))
      /\ isoRes[g] \in {"none", "nil", "dialErr"}
      /\ isoRes[g] = "dialErr" => (isoOut[g] = <<>> /\ isoBack[g] = <<>>)
      /\ (isoRes[g] = "nil" /\ ~isoReset[g] /\ ~isoCut[g]) => isoOut[g] = IsoPayload(g)

C28_Witness ==
  /\ isoRes[1] = "dialErr"
  /\ isoRes[2] = "nil" /\ isoOut[2] = IsoPayload(2) /\ isoBack[2] = IsoPeerPayload(2)

\* C29: the forwarding handler's round trip always ends: a target that
\* accepts the connection but never answers does not block it forever.
C29_RoundTripEnds == <>(rtPc = "done")
====
